---- MODULE Spec2Model ----
(***************************************************************************)
(* Model of the idle game: GameNumber / GameState (models.py), the sqlite  *)
(* store GameDatabase (database.py) and the session driver IdleGame        *)
(* (app.py).                                                               *)
(*                                                                         *)
(* Abstractions.  Clock readings are whole seconds, so every Decimal the   *)
(* program computes is an integer and is modelled by an Int; the 50-digit  *)
(* precision of the decimal context is never reached within the bounds.    *)
(* A datetime is the number of seconds since an arbitrary origin.  Text    *)
(* stored in the database is modelled as text: a decimal is a sign and a   *)
(* sequence of base-10 digits, a timestamp is minutes and seconds.         *)
(* GameState objects live in a heap (objs) because save_state keeps a      *)
(* reference to the object it was called with across its await points.     *)
(***************************************************************************)
EXTENDS Integers, Sequences, FiniteSets, TLC

VARIABLES
    clock,            \* the wall clock, datetime.now()
    skews,            \* history: how often the wall clock was stepped backward
    objs,             \* heap of GameState objects: id -> fields
    game_state,       \* IdleGame.game_state: id of the current object
    updates_enabled,  \* IdleGame.updates_enabled
    timers,           \* update_timer and save_timer are running
    pc,               \* lifecycle of the app's message pump
    tasks,            \* save_state coroutines in flight, per owner
    db,               \* the sqlite file: schema and committed rows
    origin,           \* history: how and when the current object came to be
    committed,        \* history: the state snapshot of the last committed save
    clicks,           \* history: number of clicks on the current object
    events,           \* history: clicks, resets, manual and auto saves so far
    lastOp            \* history: the last operation and what it returned

vars == <<clock, skews, objs, game_state, updates_enabled, timers, pc,
          tasks, db, origin, committed, clicks, events, lastOp>>

-----------------------------------------------------------------------------
(* Bounds *)

StartTime == 59
MaxClock == 1
MaxEvents == 2
MaxSkews == 1
MaxGroups == 13

Times == StartTime .. (StartTime + MaxClock)

-----------------------------------------------------------------------------
(* decimal / datetime text *)

RECURSIVE Digits(_)
Digits(n) == IF n < 10 THEN <<n>> ELSE Append(Digits(n \div 10), n % 10)

RECURSIVE DigitsValue(_)
DigitsValue(ds) ==
    IF Len(ds) = 0 THEN 0
    ELSE 10 * DigitsValue(SubSeq(ds, 1, Len(ds) - 1)) + ds[Len(ds)]

\* str(Decimal)
DecimalStr(v) == [neg |-> v < 0, digits |-> Digits(IF v < 0 THEN -v ELSE v)]

\* Decimal(text)
DecimalParse(t) == IF t.neg THEN -DigitsValue(t.digits) ELSE DigitsValue(t.digits)

\* Decimal(text) raises decimal.InvalidOperation unless the text is a number:
\* at least one digit, and digits only
DecimalAccepts(t) ==
    /\ Len(t.digits) > 0
    /\ \A i \in 1 .. Len(t.digits) : t.digits[i] \in 0 .. 9

\* datetime.fromisoformat(text) raises ValueError unless the fields are in range
TimestampAccepts(x) == x.minute >= 0 /\ x.second \in 0 .. 59

\* datetime.isoformat()
isoformat(t) == [minute |-> t \div 60, second |-> t % 60]

\* datetime.fromisoformat(text)
fromisoformat(x) == 60 * x.minute + x.second

-----------------------------------------------------------------------------
(* models.py *)

\* GameNumber.add
add(value, amount) == value + amount

\* GameNumber.multiply
multiply(value, factor) == value * factor

\* variant: the defaults of counter and click_power exchanged
NewGameState_SwappedDefaults(now) ==
    [counter |-> 10, click_power |-> 0, auto_increment |-> 1,
     last_update |-> now, last_save |-> now]

\* GameState(): the dataclass defaults, both timestamps read from the clock
NewGameState(now) ==
    [counter |-> 0, click_power |-> 10, auto_increment |-> 1,
     last_update |-> now, last_save |-> now]

\* Methods return the object after the call (self) and the returned value (ret).

\* variant: the earnings are also added to the counter
calculate_offline_earnings_Applying(self, seconds_offline) ==
    LET earned == multiply(self.auto_increment, seconds_offline)
    IN  [self |-> [self EXCEPT !.counter = add(self.counter, earned)], ret |-> earned]

\* GameState.calculate_offline_earnings
calculate_offline_earnings(self, seconds_offline) ==
    [self |-> self, ret |-> multiply(self.auto_increment, seconds_offline)]

\* variant: the operands of the subtraction exchanged
update_Reversed(self, current_time) ==
    LET time_delta == self.last_update - current_time
        increment == multiply(self.auto_increment, time_delta)
    IN  [self |-> [self EXCEPT !.counter = add(self.counter, increment),
                               !.last_update = current_time],
         ret |-> increment]

\* variant: last_update is not advanced
update_NoAdvance(self, current_time) ==
    LET time_delta == current_time - self.last_update
        increment == multiply(self.auto_increment, time_delta)
    IN  [self |-> [self EXCEPT !.counter = add(self.counter, increment)],
         ret |-> increment]

\* GameState.update
update(self, current_time) ==
    LET time_delta == current_time - self.last_update
        increment == multiply(self.auto_increment, time_delta)
    IN  [self |-> [self EXCEPT !.counter = add(self.counter, increment),
                               !.last_update = current_time],
         ret |-> increment]

\* variant: the rate is added instead of the click power
click_AddsRate(self) ==
    [self |-> [self EXCEPT !.counter = add(self.counter, self.auto_increment)],
     ret |-> self.click_power]

\* GameState.click
click(self) ==
    [self |-> [self EXCEPT !.counter = add(self.counter, self.click_power)],
     ret |-> self.click_power]

-----------------------------------------------------------------------------
(* models.py: GameNumber.format.  The values it is asked to render exceed  *)
(* the integers of the model, so a value is a sequence of base-1000 groups, *)
(* most significant first (1,234,567,890 is <<1, 234, 567, 890>>), and a    *)
(* float is a binary mantissa m (bits, most significant first, the first   *)
(* one 1, at most MantissaBits of them) with an exponent e: m * 2^e.       *)

\* significand width of a Python float
MantissaBits == 53

\* long division of the digit sequence ds, base b, by d, with carry c:
\* the first half, then the second half with the carry the first one left
RECURSIVE DivSeq(_, _, _, _)
DivSeq(ds, b, d, c) ==
    IF Len(ds) = 0 THEN [q |-> <<>>, r |-> c]
    ELSE IF Len(ds) = 1
    THEN [q |-> <<(c * b + ds[1]) \div d>>, r |-> (c * b + ds[1]) % d]
    ELSE LET h == Len(ds) \div 2
             front == DivSeq(SubSeq(ds, 1, h), b, d, c)
             back == DivSeq(SubSeq(ds, h + 1, Len(ds)), b, d, front.r)
         IN  [q |-> front.q \o back.q, r |-> back.r]

\* without leading zeros
Strip(ds) ==
    LET nonzero == {i \in 1 .. Len(ds) : ds[i] # 0}
    IN  IF nonzero = {} THEN <<>>
        ELSE SubSeq(ds, CHOOSE i \in nonzero : \A j \in nonzero : i <= j, Len(ds))

\* the binary digits of a value given in groups, ten at a time
RECURSIVE Bits(_)
Bits(groups) ==
    IF Strip(groups) = <<>> THEN <<>>
    ELSE LET h == DivSeq(groups, 1000, 1024, 0)
         IN  Bits(h.q) \o [i \in 1 .. 10 |-> (h.r \div 2 ^ (10 - i)) % 2]

RECURSIVE BitsValue(_)
BitsValue(bs) ==
    IF Len(bs) = 0 THEN 0
    ELSE 2 * BitsValue(SubSeq(bs, 1, Len(bs) - 1)) + bs[Len(bs)]

\* bs + 1
Inc(bs) ==
    LET zeros == {i \in 1 .. Len(bs) : bs[i] = 0}
    IN  IF zeros = {} THEN <<1>> \o [i \in 1 .. Len(bs) |-> 0]
        ELSE LET z == CHOOSE i \in zeros : \A j \in zeros : i >= j
             IN  [i \in 1 .. Len(bs) |-> IF i < z THEN bs[i] ELSE IF i = z THEN 1 ELSE 0]

\* the float nearest to bs * 2^e (ties to even); sticky: the exact value
\* is larger than bs * 2^e by less than 2^e
RoundFloat(bs, e, sticky) ==
    IF Len(bs) <= MantissaBits THEN [m |-> bs, e |-> e]
    ELSE LET kept == SubSeq(bs, 1, MantissaBits)
             rest == SubSeq(bs, MantissaBits + 1, Len(bs))
             more == sticky \/ \E i \in 2 .. Len(rest) : rest[i] = 1
             up == rest[1] = 1 /\ (more \/ kept[MantissaBits] = 1)
             m == IF up THEN Inc(kept) ELSE kept
         IN  IF Len(m) > MantissaBits
             THEN [m |-> SubSeq(m, 1, MantissaBits), e |-> e + Len(rest) + 1]
             ELSE [m |-> m, e |-> e + Len(rest)]

\* float(self.value), for a non-negative integer value
float(groups) == RoundFloat(Strip(Bits(groups)), 0, FALSE)

\* num / 1000.0: the quotient is computed to more bits than a float holds,
\* then rounded
Div1000(num) ==
    LET extra == 2 * MantissaBits
        d == DivSeq(num.m \o [i \in 1 .. extra |-> 0], 2, 1000, 0)
    IN  RoundFloat(Strip(d.q), num.e - extra, d.r # 0)

\* abs(num) >= 1000, for num >= 0: the integer part of a float below 1024
\* and not below 512 is its first ten bits
AtLeast1000(num) ==
    LET width == Len(num.m) + num.e
        lead == SubSeq(num.m \o <<0, 0, 0, 0, 0, 0, 0, 0, 0, 0>>, 1, 10)
    IN  IF width > 10 THEN TRUE
        ELSE IF width < 10 THEN FALSE
        ELSE BitsValue(lead) >= 1000

suffixes == <<"", "K", "M", "B", "T", "Qa", "Qi", "Sx", "Sp", "Oc", "No", "Dc">>

\* the while loop of format
RECURSIVE FormatLoop(_, _)
FormatLoop(num, magnitude) ==
    IF AtLeast1000(num) /\ magnitude < Len(suffixes) - 1
    THEN FormatLoop(Div1000(num), magnitude + 1)
    ELSE magnitude

\* GameNumber.format for a non-negative integer value: the suffix chosen and
\* its index (the digits in front of the suffix are not modelled)
format(groups) ==
    IF Len(Strip(groups)) <= 1
    THEN [magnitude |-> 0, suffix |-> ""]
    ELSE LET magnitude == FormatLoop(float(groups), 0)
         IN  [magnitude |-> magnitude, suffix |-> suffixes[magnitude + 1]]

-----------------------------------------------------------------------------
(* database.py *)

\* the sqlite file before initialize(): no table
NoDb == [table |-> FALSE, rows |-> {}]

\* variant: the table is dropped and created again
initialize_Recreate(d) == [table |-> TRUE, rows |-> {}]

\* GameDatabase.initialize: CREATE TABLE IF NOT EXISTS
initialize(d) == [d EXCEPT !.table = TRUE]

\* variant: last_save written to both timestamp columns
RowOf_SaveTimeTwice(state) ==
    [id |-> 1,
     counter |-> DecimalStr(state.counter),
     click_power |-> DecimalStr(state.click_power),
     auto_increment |-> DecimalStr(state.auto_increment),
     last_update |-> isoformat(state.last_save),
     last_save |-> isoformat(state.last_save)]

\* the parameter tuple of the INSERT in save_state, with id 1
RowOf(state) ==
    [id |-> 1,
     counter |-> DecimalStr(state.counter),
     click_power |-> DecimalStr(state.click_power),
     auto_increment |-> DecimalStr(state.auto_increment),
     last_update |-> isoformat(state.last_update),
     last_save |-> isoformat(state.last_save)]

\* variant: a plain INSERT into a table without the primary key
InsertOnly(d, row) == [d EXCEPT !.rows = d.rows \cup {row}]

\* INSERT OR REPLACE on the primary key id
InsertOrReplace(d, row) ==
    [d EXCEPT !.rows = {r \in d.rows : r.id # row.id} \cup {row}]

\* the GameState constructed from a fetched row in load_state
StateOf(row) ==
    [counter |-> DecimalParse(row.counter),
     click_power |-> DecimalParse(row.click_power),
     auto_increment |-> DecimalParse(row.auto_increment),
     last_update |-> fromisoformat(row.last_update),
     last_save |-> fromisoformat(row.last_save)]

\* GameDatabase.load_state: SELECT ... WHERE id = 1, fetchone.
\* The result is a set: empty for None, else the one loaded state.
load_state(d) == {StateOf(r) : r \in {x \in d.rows : x.id = 1}}

\* GameDatabase.load_state raises instead of returning: a row is fetched and
\* one of the five conversions that build the GameState rejects its text
load_state_raises(d) ==
    \E r \in d.rows :
        /\ r.id = 1
        /\ ~(/\ DecimalAccepts(r.counter)
             /\ DecimalAccepts(r.click_power)
             /\ DecimalAccepts(r.auto_increment)
             /\ TimestampAccepts(r.last_update)
             /\ TimestampAccepts(r.last_save))

\* variant: save_state without the assignment to last_save
Stamp_Nothing(state, now) == state

\* save_state, first statement after the connection is open
Stamp(state, now) == [state EXCEPT !.last_save = now]

-----------------------------------------------------------------------------
(* app.py: the session driver *)

\* Scheduling.  The handlers of the app (on_mount, the click, the key-bound
\* actions, on_unmount) run one at a time on the app's message pump: the next
\* one starts when the previous one has returned.  Each timer runs its
\* callback in a task of its own, so game_tick and auto_save run between the
\* await points of a handler, and a timer awaits its callback before it fires
\* again.  Hence at most two save_state coroutines are in flight, one owned
\* by the pump and one by save_timer.
\*
\* Exceptions.  No handler and no timer callback of the app catches anything.
\* An exception that leaves a handler or a timer callback is given by the
\* framework to the app's exception hook, which ends the app: no further
\* handler is dispatched except on_unmount, which the framework dispatches
\* on every exit.  The timers run until on_unmount stops them.

Owners == {"pump", "timer"}

IdleTask == [phase |-> "idle", kind |-> "none", obj |-> 0, row |-> {}, snap |-> {}]

Op(name, r) == [op |-> name, ret |-> r, out |-> {}]

Loaded(result) == [op |-> "load_state", ret |-> 0, out |-> result]

\* objects still referenced by the app or by a save_state coroutine
Live(gs, ts) == {gs} \cup {ts[o].obj : o \in {x \in Owners : ts[x].phase # "idle"}}

Collect(os, gs, ts) == [i \in (DOMAIN os \cap Live(gs, ts)) |-> os[i]]

FreshId(os) ==
    CHOOSE i \in 1 .. (Cardinality(DOMAIN os) + 1) :
        /\ i \notin DOMAIN os
        /\ \A j \in 1 .. (i - 1) : j \in DOMAIN os

cur == objs[game_state]

\* start: the object when it became game_state; from: the loaded state it was
\* built from (none for GameState()); now: the clock reading at that moment
Origin(start, from, now) == [start |-> start, from |-> from, now |-> now]

\* variant: last_update is left as loaded
ApplyOffline_NoAdvance(saved_state, now) ==
    LET seconds_offline == now - saved_state.last_save
        r == calculate_offline_earnings(saved_state, seconds_offline)
    IN  IF seconds_offline > 0
        THEN [r.self EXCEPT !.counter = add(r.self.counter, r.ret)]
        ELSE saved_state

\* on_mount, the branch taken when a state was loaded: the offline earnings
\* are added when the interval is positive, then last_update is set
ApplyOffline(saved_state, now) ==
    LET seconds_offline == now - saved_state.last_save
        r == calculate_offline_earnings(saved_state, seconds_offline)
        credited ==
            IF seconds_offline > 0
            THEN [r.self EXCEPT !.counter = add(r.self.counter, r.ret)]
            ELSE saved_state
    IN  [credited EXCEPT !.last_update = now]

skewed == skews > 0

PumpIdle == pc = "running" /\ tasks["pump"].phase = "idle"

\* a record left by an earlier session: click power and rate are stored fields
\* (one saved before this session starts, one stamped by a clock that was ahead)
SavedStates ==
    {[counter |-> 100, click_power |-> 50, auto_increment |-> 2,
      last_update |-> t.u, last_save |-> t.s] :
        t \in {[u |-> StartTime - 3, s |-> StartTime - 2],
               [u |-> StartTime, s |-> StartTime + 1]}}

InitDbs ==
    {NoDb, initialize(NoDb)}
        \cup {InsertOrReplace(initialize(NoDb), RowOf(s)) : s \in SavedStates}

Init ==
    /\ clock = StartTime
    /\ db \in InitDbs
    /\ skews = 0
    /\ objs = (1 :> NewGameState(clock))
    /\ game_state = 1
    /\ updates_enabled = FALSE
    /\ timers = FALSE
    /\ pc = "start"
    /\ tasks = [o \in Owners |-> IdleTask]
    /\ origin = Origin(NewGameState(clock), {}, clock)
    /\ committed = load_state(db)
    /\ clicks = 0
    /\ events = 0
    /\ lastOp = Op("init", 0)

\* the app is gone: on_unmount has returned or has raised
Ended == pc \in {"exited", "aborted"}

\* time passes
ClockAdvance ==
    /\ ~Ended
    /\ clock < StartTime + MaxClock
    /\ clock' = clock + 1
    /\ UNCHANGED <<skews, objs, game_state, updates_enabled, timers, pc, tasks,
                   db, origin, committed, clicks, events, lastOp>>

\* the wall clock is set back (datetime.now() is not monotonic)
ClockBack ==
    /\ ~Ended
    /\ clock > StartTime
    /\ skews < MaxSkews
    /\ clock' = clock - 1
    /\ skews' = skews + 1
    /\ UNCHANGED <<objs, game_state, updates_enabled, timers, pc, tasks,
                   db, origin, committed, clicks, events, lastOp>>

\* on_mount up to its first await: db.initialize()
MountInitialize ==
    /\ pc = "start"
    /\ db' = initialize(db)
    /\ pc' = "initialized"
    /\ UNCHANGED <<clock, skews, objs, game_state, updates_enabled, timers,
                   tasks, origin, committed, clicks, events, lastOp>>

\* on_mount from load_state() to the end: offline earnings, then the timers
MountLoad ==
    /\ pc = "initialized"
    /\ ~load_state_raises(db)
    /\ LET saved == load_state(db)
           now == clock
       IN  IF saved = {}
           THEN UNCHANGED <<objs, game_state, origin>>
           ELSE LET saved_state == CHOOSE s \in saved : TRUE
                    id == FreshId(objs)
                    new == ApplyOffline(saved_state, now)
                IN  /\ game_state' = id
                    /\ objs' = Collect(objs @@ (id :> new), id, tasks)
                    /\ origin' = Origin(new, saved, now)
    /\ timers' = TRUE
    /\ pc' = "running"
    /\ UNCHANGED <<clock, skews, updates_enabled, tasks, db, committed, clicks,
                   events, lastOp>>

\* on_mount when load_state() raises: the handler ends there, before the
\* assignment to game_state and before the two set_interval calls
MountLoadRaises ==
    /\ pc = "initialized"
    /\ load_state_raises(db)
    /\ pc' = "failed"
    /\ UNCHANGED <<clock, skews, objs, game_state, updates_enabled, timers,
                   tasks, db, origin, committed, clicks, events, lastOp>>

\* game_tick without the updates_enabled test
GameTick_IgnoresPause ==
    /\ timers
    /\ objs' = [objs EXCEPT ![game_state] = update(cur, clock).self]
    /\ UNCHANGED <<clock, skews, game_state, updates_enabled, timers, pc, tasks,
                   db, origin, committed, clicks, events, lastOp>>

\* game_tick, fired by update_timer
GameTick ==
    /\ timers
    /\ IF ~updates_enabled
       THEN UNCHANGED objs
       ELSE objs' = [objs EXCEPT ![game_state] = update(cur, clock).self]
    /\ UNCHANGED <<clock, skews, game_state, updates_enabled, timers, pc, tasks,
                   db, origin, committed, clicks, events, lastOp>>

\* on_click_button_clicked
Click ==
    /\ PumpIdle
    /\ events < MaxEvents
    /\ events' = events + 1
    /\ objs' = [objs EXCEPT ![game_state] = click(cur).self]
    /\ clicks' = clicks + 1
    /\ UNCHANGED <<clock, skews, game_state, updates_enabled, timers, pc, tasks,
                   db, origin, committed, lastOp>>

\* action_toggle_updates
ToggleUpdates ==
    /\ PumpIdle
    /\ updates_enabled' = ~updates_enabled
    /\ UNCHANGED <<clock, skews, objs, game_state, timers, pc, tasks,
                   db, origin, committed, clicks, events, lastOp>>


\* save_state is entered with a reference to a GameState and awaits the
\* connection; kind names the handler that called it
BeginSave(o, kind, id) ==
    [phase |-> "connecting", kind |-> kind, obj |-> id, row |-> {}, snap |-> {}]

\* auto_save, fired by save_timer; the timer awaits it before it fires again
AutoSave ==
    /\ timers
    /\ tasks["timer"].phase = "idle"
    /\ events < MaxEvents
    /\ events' = events + 1
    /\ tasks' = [tasks EXCEPT !["timer"] = BeginSave("timer", "auto", game_state)]
    /\ UNCHANGED <<clock, skews, objs, game_state, updates_enabled, timers, pc,
                   db, origin, committed, clicks, lastOp>>

\* action_save
ActionSave ==
    /\ PumpIdle
    /\ events < MaxEvents
    /\ events' = events + 1
    /\ tasks' = [tasks EXCEPT !["pump"] = BeginSave("pump", "manual", game_state)]
    /\ UNCHANGED <<clock, skews, objs, game_state, updates_enabled, timers, pc,
                   db, origin, committed, clicks, lastOp>>

\* save_state once connected: stamp last_save, evaluate the INSERT's
\* parameters, hand the statement to the connection's thread
SaveStamp(o) ==
    /\ tasks[o].phase = "connecting"
    /\ LET id == tasks[o].obj
           stamped == Stamp(objs[id], clock)
       IN  /\ objs' = [objs EXCEPT ![id] = stamped]
           /\ tasks' = [tasks EXCEPT ![o] = [@ EXCEPT !.phase = "executing",
                                                      !.row = {RowOf(stamped)},
                                                      !.snap = {stamped}]]
    /\ UNCHANGED <<clock, skews, game_state, updates_enabled, timers, pc,
                   db, origin, committed, clicks, events, lastOp>>

\* variant: the INSERT's parameters are read from the state when the
\* statement runs, after the await
SaveCommit_ReadsAtCommit(o) ==
    /\ tasks[o].phase = "executing"
    /\ LET ts == [tasks EXCEPT ![o] = IdleTask]
       IN  /\ db' = InsertOrReplace(db, RowOf(objs[tasks[o].obj]))
           /\ committed' = {objs[tasks[o].obj]}
           /\ tasks' = ts
           /\ objs' = Collect(objs, game_state, ts)
    /\ pc' = IF tasks[o].kind = "unmount" THEN "exited" ELSE pc
    /\ UNCHANGED <<clock, skews, game_state, updates_enabled, timers,
                   origin, clicks, events, lastOp>>

\* the INSERT OR REPLACE and db.commit() run on the connection's thread: one
\* write transaction, which sqlite's write lock makes atomic with respect to
\* the other connection; then save_state returns and the handler that awaited
\* it finishes (on_unmount: the app has exited)
SaveCommit(o) ==
    /\ tasks[o].phase = "executing"
    /\ LET row == CHOOSE r \in tasks[o].row : TRUE
           ts == [tasks EXCEPT ![o] = IdleTask]
       IN  /\ db' = InsertOrReplace(db, row)
           /\ committed' = tasks[o].snap
           /\ tasks' = ts
           /\ objs' = Collect(objs, game_state, ts)
    /\ pc' = IF tasks[o].kind = "unmount" THEN "exited" ELSE pc
    /\ UNCHANGED <<clock, skews, game_state, updates_enabled, timers,
                   origin, clicks, events, lastOp>>

\* save_state raises: aiosqlite.connect, the INSERT or the commit fails
\* (sqlite3.OperationalError: disk full, file locked or unreadable).  The
\* connection is closed without a commit, so nothing is written; last_save
\* stays as stamped when the failure comes after the stamp.  The exception
\* leaves auto_save, action_save, action_reset or on_unmount uncaught.
SaveRaises(o) ==
    /\ tasks[o].phase \in {"connecting", "executing"}
    /\ LET ts == [tasks EXCEPT ![o] = IdleTask]
       IN  /\ tasks' = ts
           /\ objs' = Collect(objs, game_state, ts)
    /\ pc' = IF tasks[o].kind = "unmount" THEN "aborted" ELSE "failed"
    /\ UNCHANGED <<clock, skews, game_state, updates_enabled, timers,
                   db, origin, committed, clicks, events, lastOp>>

\* action_reset: the dialog is answered; on confirm a new GameState replaces
\* the current one and save_state is entered with it
ActionReset(confirm) ==
    /\ PumpIdle
    /\ events < MaxEvents
    /\ events' = events + 1
    /\ IF confirm
       THEN LET id == FreshId(objs)
                ts == [tasks EXCEPT !["pump"] = BeginSave("pump", "reset", id)]
            IN  /\ game_state' = id
                /\ tasks' = ts
                /\ objs' = Collect(objs @@ (id :> NewGameState(clock)), id, ts)
                /\ origin' = Origin(NewGameState(clock), {}, clock)
                /\ clicks' = 0
       ELSE UNCHANGED <<objs, game_state, tasks, origin, clicks>>
    /\ UNCHANGED <<clock, skews, updates_enabled, timers, pc, db, committed, lastOp>>

\* on_unmount without the two stop() calls
Unmount_TimersRunning(lands) ==
    /\ PumpIdle
    /\ tasks' = [tasks EXCEPT !["pump"] = BeginSave("pump", "unmount", game_state)]
    /\ pc' = "unmounting"
    /\ UNCHANGED <<clock, skews, objs, game_state, updates_enabled, timers, db,
                   origin, committed, clicks, events, lastOp>>

\* on_unmount: both timers are stopped, which cancels an auto_save in flight
\* (its transaction is rolled back, unless it was already running in the
\* connection's thread), then save_state is entered
Unmount(lands) ==
    /\ pc \in {"running", "failed"}
    /\ tasks["pump"].phase = "idle"
    /\ timers' = FALSE
    /\ LET t == tasks["timer"]
           landed == lands /\ t.phase = "executing"
           ts == [tasks EXCEPT !["timer"] = IdleTask,
                               !["pump"] = BeginSave("pump", "unmount", game_state)]
       IN  /\ tasks' = ts
           /\ objs' = Collect(objs, game_state, ts)
           /\ db' = IF landed THEN InsertOrReplace(db, CHOOSE r \in t.row : TRUE) ELSE db
           /\ committed' = IF landed THEN t.snap ELSE committed
    /\ pc' = "unmounting"
    /\ UNCHANGED <<clock, skews, game_state, updates_enabled, origin, clicks, events, lastOp>>

Next ==
    \/ ClockAdvance
    \/ ClockBack
    \/ MountInitialize
    \/ MountLoad
    \/ GameTick
    \/ Click
    \/ ToggleUpdates
    \/ AutoSave
    \/ ActionSave
    \/ \E o \in Owners : SaveStamp(o)
    \/ \E o \in Owners : SaveCommit(o)
    \/ \E confirm \in BOOLEAN : ActionReset(confirm)
    \/ \E lands \in BOOLEAN : Unmount(lands)

Spec == Init /\ [][Next]_vars

\* The session with two more history records, kept in lastOp: ret is the
\* clock reading at which the session was last resumed (0 while paused), out
\* is the snapshot taken by the save_state that stamped last.

\* action_toggle_updates, recording the resume
ToggleUpdatesRecorded ==
    /\ PumpIdle
    /\ updates_enabled' = ~updates_enabled
    /\ lastOp' = [lastOp EXCEPT !.op = "toggle",
                                !.ret = IF updates_enabled THEN 0 ELSE clock]
    /\ UNCHANGED <<clock, skews, objs, game_state, timers, pc, tasks,
                   db, origin, committed, clicks, events>>

\* save_state once connected, recording the snapshot
SaveStampRecorded(o) ==
    /\ tasks[o].phase = "connecting"
    /\ LET id == tasks[o].obj
           stamped == Stamp(objs[id], clock)
       IN  /\ objs' = [objs EXCEPT ![id] = stamped]
           /\ tasks' = [tasks EXCEPT ![o] = [@ EXCEPT !.phase = "executing",
                                                      !.row = {RowOf(stamped)},
                                                      !.snap = {stamped}]]
           /\ lastOp' = [lastOp EXCEPT !.out = {stamped}]
    /\ UNCHANGED <<clock, skews, game_state, updates_enabled, timers, pc,
                   db, origin, committed, clicks, events>>

NextRecorded ==
    \/ ClockAdvance
    \/ ClockBack
    \/ MountInitialize
    \/ MountLoad
    \/ GameTick
    \/ Click
    \/ ToggleUpdatesRecorded
    \/ AutoSave
    \/ ActionSave
    \/ \E o \in Owners : SaveStampRecorded(o)
    \/ \E o \in Owners : SaveCommit(o)
    \/ \E confirm \in BOOLEAN : ActionReset(confirm)
    \/ \E lands \in BOOLEAN : Unmount(lands)

SpecRecorded == Init /\ [][NextRecorded]_vars

\* The session with storage faults: a record left behind whose text cannot
\* be decoded, and sqlite operations that fail.

\* rows of the table whose counter or last_save text was damaged
CorruptRows ==
    LET row == RowOf([counter |-> 100, click_power |-> 50, auto_increment |-> 2,
                      last_update |-> StartTime - 3, last_save |-> StartTime - 2])
    IN  {[row EXCEPT !.counter = [neg |-> FALSE, digits |-> <<>>]],
         [row EXCEPT !.last_save = [minute |-> 0, second |-> 60]]}

InitFaults ==
    /\ clock = StartTime
    /\ db \in InitDbs \cup {InsertOrReplace(initialize(NoDb), r) : r \in CorruptRows}
    /\ skews = 0
    /\ objs = (1 :> NewGameState(clock))
    /\ game_state = 1
    /\ updates_enabled = FALSE
    /\ timers = FALSE
    /\ pc = "start"
    /\ tasks = [o \in Owners |-> IdleTask]
    /\ origin = Origin(NewGameState(clock), {}, clock)
    /\ committed = IF load_state_raises(db) THEN {} ELSE load_state(db)
    /\ clicks = 0
    /\ events = 0
    /\ lastOp = Op("init", 0)

NextFaults ==
    \/ Next
    \/ MountLoadRaises
    \/ \E o \in Owners : SaveRaises(o)

SpecFaults == InitFaults /\ [][NextFaults]_vars

-----------------------------------------------------------------------------
(* tests/test_models.py, tests/test_database.py: the operations called one  *)
(* at a time on one GameState and one database, each awaited to its end     *)

\* the states the tests construct, timestamps defaulted from the clock
TestStates ==
    {[NewGameState(StartTime) EXCEPT !.counter = s.c, !.click_power = s.cp,
                                     !.auto_increment = s.ai] :
        s \in {[c |-> 100, cp |-> 10, ai |-> 1], [c |-> 100, cp |-> 10, ai |-> 2],
               [c |-> 1000, cp |-> 10, ai |-> 5], [c |-> 12345, cp |-> 50, ai |-> 10]}}

\* seconds passed to calculate_offline_earnings
TestSeconds == {0, 1, 60}

InitTest ==
    /\ clock = StartTime
    /\ skews = 0
    /\ \E s \in TestStates :
         /\ objs = (1 :> s)
         /\ origin = Origin(s, {}, StartTime)
    /\ game_state = 1
    /\ updates_enabled = FALSE
    /\ timers = FALSE
    /\ pc = "test"
    /\ tasks = [o \in Owners |-> IdleTask]
    /\ db = NoDb
    /\ committed = {}
    /\ clicks = 0
    /\ events = 0
    /\ lastOp = Op("init", 0)

TestFrame == UNCHANGED <<clock, skews, game_state, updates_enabled, timers, pc,
                         tasks, origin>>

\* state.update(current_time)
TestUpdate(current_time) ==
    /\ pc = "test"
    /\ LET r == update(cur, current_time)
       IN  /\ objs' = [objs EXCEPT ![game_state] = r.self]
           /\ lastOp' = Op("update", r.ret)
    /\ UNCHANGED <<db, committed, clicks, events>>
    /\ TestFrame

\* state.click()
TestClick ==
    /\ pc = "test"
    /\ events < MaxEvents
    /\ events' = events + 1
    /\ clicks' = clicks + 1
    /\ LET r == click(cur)
       IN  /\ objs' = [objs EXCEPT ![game_state] = r.self]
           /\ lastOp' = Op("click", r.ret)
    /\ UNCHANGED <<db, committed>>
    /\ TestFrame

\* state.calculate_offline_earnings(seconds)
TestOffline(seconds) ==
    /\ pc = "test"
    /\ LET r == calculate_offline_earnings(cur, seconds)
       IN  /\ objs' = [objs EXCEPT ![game_state] = r.self]
           /\ lastOp' = Op("calculate_offline_earnings", r.ret)
    /\ UNCHANGED <<db, committed, clicks, events>>
    /\ TestFrame

\* await db.initialize()
TestInitialize ==
    /\ pc = "test"
    /\ db' = initialize(db)
    /\ lastOp' = Op("initialize", 0)
    /\ UNCHANGED <<objs, committed, clicks, events>>
    /\ TestFrame

\* await db.save_state(state), on an initialized database
TestSave ==
    /\ pc = "test"
    /\ db.table
    /\ LET stamped == Stamp(cur, clock)
       IN  /\ objs' = [objs EXCEPT ![game_state] = stamped]
           /\ db' = InsertOrReplace(db, RowOf(stamped))
           /\ committed' = {stamped}
    /\ lastOp' = Op("save_state", 0)
    /\ UNCHANGED <<clicks, events>>
    /\ TestFrame

\* await db.load_state(), on an initialized database
TestLoad ==
    /\ pc = "test"
    /\ db.table
    /\ lastOp' = Loaded(load_state(db))
    /\ UNCHANGED <<objs, db, committed, clicks, events>>
    /\ TestFrame

NextTest ==
    \/ ClockAdvance
    \/ ClockBack
    \/ \E t \in Times : TestUpdate(t)
    \/ TestClick
    \/ \E n \in TestSeconds : TestOffline(n)
    \/ TestInitialize
    \/ TestSave
    \/ TestLoad

SpecTest == InitTest /\ [][NextTest]_vars

\* tests/test_models.py, test_game_number_formatting: format() called on a
\* GameNumber.  The values: the ones of the test, and for every length up to
\* MaxGroups the powers of 1000, the values just below the next power and
\* the values 999 x 1000^k and 1,999,...,999.
FormatInputs ==
    {<<0>>, <<1, 500, 0>>, <<1, 234, 567, 890>>}
        \cup {[i \in 1 .. n |-> IF i = 1 THEN g.top ELSE g.rest] :
                 n \in 1 .. MaxGroups,
                 g \in {[top |-> 1, rest |-> 0], [top |-> 1, rest |-> 999],
                        [top |-> 999, rest |-> 0], [top |-> 999, rest |-> 999]}}

InitFormat ==
    /\ clock = StartTime
    /\ skews = 0
    /\ objs = (1 :> NewGameState(StartTime))
    /\ game_state = 1
    /\ updates_enabled = FALSE
    /\ timers = FALSE
    /\ pc = "test"
    /\ origin = Origin(NewGameState(StartTime), {}, StartTime)
    /\ tasks = [o \in Owners |-> IdleTask]
    /\ db = NoDb
    /\ committed = {}
    /\ clicks = 0
    /\ events = 0
    /\ \E v \in FormatInputs : lastOp = [op |-> "GameNumber", ret |-> 0, out |-> {v}]

\* GameNumber(value).format()
TestFormat ==
    /\ pc = "test"
    /\ lastOp.op = "GameNumber"
    /\ lastOp' = [op |-> "format",
                  ret |-> format(CHOOSE v \in lastOp.out : TRUE),
                  out |-> lastOp.out]
    /\ UNCHANGED <<objs, db, committed, clicks, events>>
    /\ TestFrame

NextFormat == TestFormat

SpecFormat == InitFormat /\ [][NextFormat]_vars

-----------------------------------------------------------------------------
(* Properties *)

\* C1: between resets the counter never decreases, as long as the clock has
\* not been stepped backward: every step that keeps the current object leaves
\* its counter at least as large, and startup yields at least the saved counter.
C1_CounterNeverDecreases ==
    [][~skewed' =>
          /\ (game_state' = game_state => cur'.counter >= cur.counter)
          /\ (MountLoad => \A s \in load_state(db) : cur'.counter >= s.counter)]_vars

\* a loaded session whose clock never went back has ticked and been clicked
C1_Witness ==
    /\ ~skewed
    /\ origin.from # {}
    /\ clicks >= 1
    /\ cur.last_update > origin.now
    /\ cur.counter > origin.start.counter

OfflineEarned(saved, now) ==
    IF now - saved.last_save > 0
    THEN saved.auto_increment * (now - saved.last_save)
    ELSE 0

\* C2: startup with a saved record applies the offline interval exactly once:
\* on_mount leaves counter = saved counter + rate x (now - saved last_save)
\* when that interval is positive (the saved counter otherwise) and
\* last_update = now, and from then on the counter holds that amount plus the
\* rate times the time ticked since now plus the clicks; nothing is credited twice.
C2_OfflineAppliedOnce ==
    \A s \in origin.from :
        /\ origin.start.counter = s.counter + OfflineEarned(s, origin.now)
        /\ origin.start.last_update = origin.now
        /\ cur.counter = s.counter + OfflineEarned(s, origin.now)
                           + s.auto_increment * (cur.last_update - origin.now)
                           + s.click_power * clicks

\* a record saved before startup was loaded and a later tick was applied
C2_Witness ==
    /\ updates_enabled
    /\ \E s \in origin.from :
         /\ origin.now > s.last_save
         /\ cur.last_update > origin.now
         /\ cur.counter > s.counter

\* C3: save_state followed by load_state returns the saved state: the same
\* counter, click_power and auto_increment, and the last_update and last_save
\* the state held when the row was written.
C3_SaveLoadRoundTrip ==
    (lastOp.op = "load_state" /\ committed # {}) => lastOp.out = committed

\* a state that was updated, clicked and stamped after the start was loaded back
C3_Witness ==
    /\ lastOp.op = "load_state"
    /\ \E s \in lastOp.out :
         /\ s.last_save > StartTime
         /\ s.last_update > StartTime
         /\ s.counter > origin.start.counter + s.click_power

\* C4: update(now) with now >= last_update returns auto_increment x elapsed,
\* adds exactly that to counter, sets last_update = now and changes nothing
\* else; with now = last_update it returns 0 and the counter is unchanged.
C4_TickContract ==
    [][\A t \in Times :
          (TestUpdate(t) /\ t >= cur.last_update) =>
              /\ lastOp'.ret = cur.auto_increment * (t - cur.last_update)
              /\ cur' = [cur EXCEPT !.counter = cur.counter + lastOp'.ret,
                                    !.last_update = t]
              /\ (t = cur.last_update => lastOp'.ret = 0 /\ cur'.counter = cur.counter)]_vars

\* an update over a positive interval returned a positive increment
C4_Witness ==
    /\ lastOp.op = "update"
    /\ lastOp.ret > 0
    /\ cur.last_update > origin.start.last_update
    /\ cur.counter = origin.start.counter + lastOp.ret + cur.click_power * clicks

\* C5: a tick whose clock reading is earlier than last_update clamps the
\* elapsed time to 0: the increment is zero and the counter does not decrease.
C5_BackwardClockClamped ==
    [][(GameTick /\ updates_enabled /\ clock < cur.last_update) =>
          /\ update(cur, clock).ret = 0
          /\ cur'.counter >= cur.counter]_vars

\* C6: click adds exactly click_power to counter and returns click_power,
\* changes nothing else, is applied paused or running, and n clicks add
\* n x click_power on top of what the ticks credited.
C6_ClickAddsClickPower ==
    [][/\ Click =>
            /\ click(cur).ret = cur.click_power
            /\ objs' = [objs EXCEPT ![game_state] =
                            [cur EXCEPT !.counter = cur.counter + cur.click_power]]
            /\ updates_enabled' = updates_enabled
       /\ cur'.counter = origin'.start.counter
                          + origin'.start.auto_increment
                                * (cur'.last_update - origin'.start.last_update)
                          + origin'.start.click_power * clicks']_vars

\* two clicks were applied while the session was paused
C6_Witness ==
    /\ pc = "running"
    /\ ~updates_enabled
    /\ clicks >= 2
    /\ cur.counter >= origin.start.counter + 2 * cur.click_power

\* C7: calculate_offline_earnings(seconds) returns auto_increment x seconds
\* and leaves every field of the state as it was.
C7_OfflineEarningsPure ==
    [][\A n \in TestSeconds :
          TestOffline(n) =>
              /\ lastOp'.ret = cur.auto_increment * n
              /\ objs' = objs]_vars

\* 60 seconds at rate 5 returned 300
C7_Witness ==
    /\ lastOp.op = "calculate_offline_earnings"
    /\ lastOp.ret = 300
    /\ cur.auto_increment = 5

\* C8: the store holds at most one record, and load_state returns the state
\* of the most recently completed save.
C8_SingleRecordLatestSave ==
    /\ Cardinality(db.rows) <= 1
    /\ load_state(db) = committed

\* the record loaded at startup has been replaced by the shutdown save
C8_Witness ==
    /\ pc = "exited"
    /\ origin.from # {}
    /\ committed # {}
    /\ committed # origin.from
    /\ \E s \in committed : s.counter > origin.start.counter

\* C9: load_state on an initialized store never saved to returns None, and
\* initialize neither creates a record nor removes or changes one.
C9_LoadAbsentInitializeKeeps ==
    [][/\ (TestLoad /\ committed = {}) => lastOp'.out = {}
       /\ TestInitialize => (db'.table /\ db'.rows = db.rows)]_vars

\* initialize was called again after a save and the record is still there
C9_Witness ==
    /\ lastOp.op = "initialize"
    /\ committed # {}
    /\ load_state(db) = committed

ResetInMemory ==
    ActionReset(TRUE) =>
        /\ cur'.counter = 0
        /\ cur'.click_power = 10
        /\ cur'.auto_increment = 1
        /\ cur'.last_update = clock

ResetDeclined ==
    ActionReset(FALSE) =>
        /\ objs' = objs
        /\ game_state' = game_state
        /\ db' = db
        /\ tasks' = tasks

ResetSaveCommits == SaveCommit("pump") /\ tasks["pump"].kind = "reset"

C11_FinalSaveOnShutdown ==
    [][/\ pc \in {"unmounting", "exited"} =>
            /\ cur'.counter = cur.counter
            /\ cur'.last_update = cur.last_update
            /\ tasks'["timer"] = IdleTask
       /\ pc' = "exited" =>
            /\ load_state(db') # {}
            /\ \A s \in load_state(db') :
                 s.counter = cur'.counter /\ s.last_update = cur'.last_update]_vars

\* a running session that was ticked has shut down with its counter stored
C11_Witness ==
    /\ pc = "exited"
    /\ updates_enabled
    /\ cur.last_update > origin.now
    /\ \A s \in load_state(db) : s.counter = cur.counter

\* a session shut down while paused, its counter stored all the same
C11_WitnessPaused ==
    /\ pc = "exited"
    /\ ~updates_enabled
    /\ load_state(db) = {cur}

\* C14: while the session is paused the tick timer applies nothing: a step
\* taken with the pause flag set before and after it leaves last_update of
\* the current state as it was and changes its counter by clicks only, a tick
\* fired while paused changes no state at all, and the toggle command changes
\* the flag and nothing of the GameState or of the stored record.
C14_PausedTickAppliesNothing ==
    [][/\ (timers /\ ~updates_enabled /\ ~updates_enabled' /\ game_state' = game_state) =>
            /\ cur'.last_update = cur.last_update
            /\ cur'.counter = cur.counter + cur.click_power * (clicks' - clicks)
       /\ (GameTick /\ ~updates_enabled) => objs' = objs
       /\ ToggleUpdates =>
            /\ updates_enabled' = ~updates_enabled
            /\ objs' = objs /\ game_state' = game_state /\ db' = db]_vars

\* the session was resumed, ticked and paused again, and time has passed
\* since the last applied tick with the tick timer still firing
C14_Witness ==
    /\ timers
    /\ ~updates_enabled
    /\ cur.last_update > origin.now
    /\ clock # cur.last_update

\* counter and last_update of x belong to one moment of the current state:
\* the counter is what the ticks up to x.last_update and some of the clicks
\* made so far have credited since the state became game_state
OneMoment(x) ==
    \E k \in 0 .. clicks :
        x.counter = origin.start.counter
                      + origin.start.auto_increment
                          * (x.last_update - origin.start.last_update)
                      + origin.start.click_power * k

\* C18: every record written by save_state is the state at one instant, the
\* one at which last_save is stamped: the stamp step sets last_save to the
\* clock reading and takes all five fields of the row from the state as it is
\* then; ticks and clicks that run before the write do not alter the row, so
\* its counter and last_update belong to one moment; and the stored record
\* changes only by being replaced whole by such a row.
C18_RecordIsSnapshot ==
    [][/\ \A o \in Owners :
            SaveStamp(o) =>
                /\ objs'[tasks[o].obj].last_save = clock
                /\ tasks'[o].snap = {objs'[tasks[o].obj]}
                /\ tasks'[o].row = {RowOf(objs'[tasks[o].obj])}
       /\ \A o \in Owners :
            tasks'[o].obj = game_state' =>
                \A x \in tasks'[o].snap : OneMoment(x)'
       /\ db'.rows # db.rows =>
            \E o \in Owners : tasks[o].row # {} /\ db'.rows = tasks[o].row]_vars

\* a save of the current state is between its stamp and its write, and a
\* tick or a click has changed the counter meanwhile
C18_Witness ==
    \E o \in Owners :
        /\ tasks[o].phase = "executing"
        /\ tasks[o].obj = game_state
        /\ \A s \in tasks[o].snap : s.counter # cur.counter

\* C20: as long as the clock has not been stepped backward, every record
\* that is stored or about to be written has last_update <= last_save, after
\* any ticks, clicks, pauses, resets and saves; so the offline interval of
\* the next startup, which begins at the record's last_save, begins no
\* earlier than the time up to which ticks were credited to its counter.
C20_UpdateNotAfterSave ==
    ~skewed =>
        /\ \A s \in load_state(db) : s.last_update <= s.last_save
        /\ \A o \in Owners : \A r \in tasks[o].row :
              StateOf(r).last_update <= StateOf(r).last_save

\* a record loaded at startup was ticked and then saved by this session: the
\* stored record carries the tick's last_update and a last_save not before it
C20_Witness ==
    /\ ~skewed
    /\ origin.from # {}
    /\ cur.last_update > origin.now
    /\ load_state(db) = committed
    /\ \E s \in load_state(db) :
         s.last_update = cur.last_update /\ s.last_update <= s.last_save

\* C12: a storage failure during an auto-save does not end the session: the
\* step in which save_state raises inside auto_save leaves the session
\* running with its timers, so that ticks, clicks and auto-saves go on, and
\* leaves the counter in memory as it was.
C12_AutoSaveFailureSurvived ==
    [][SaveRaises("timer") =>
          /\ pc' = pc
          /\ timers'
          /\ cur'.counter = cur.counter]_vars

\* C13: load_state of a record whose decimal or timestamp text is malformed
\* raises, returning neither None nor a state; at startup on_mount ends there
\* with the state in memory untouched and the timers not started, and the
\* malformed record is never overwritten by a save.
C13_CorruptRecordKept ==
    [][load_state_raises(db) =>
          /\ pc = "initialized" =>
                /\ pc' \in {"initialized", "failed"}
                /\ objs' = objs /\ game_state' = game_state
          /\ ~timers'
          /\ db'.rows = db.rows]_vars

\* C15: last_save in memory is the instant of the most recent durable write:
\* once startup is over, whenever a record is stored and no save is in
\* flight the current state's last_save is the record's last_save; in
\* particular a save that raised has left last_save as it was.
C15_LastSaveIsDurableWrite ==
    (/\ pc \in {"running", "failed"}
     /\ \A o \in Owners : tasks[o].phase = "idle"
     /\ ~load_state_raises(db))
        => \A s \in load_state(db) : cur.last_save = s.last_save

\* the later of two clock readings
Later(a, b) == IF a >= b THEN a ELSE b

\* C17: time spent paused earns nothing: as long as the clock has not been
\* stepped backward, a tick applied while running credits the rate times the
\* time since the previous applied tick or since the resume, whichever is
\* later, so that the first tick after a resume credits only the time since
\* the resume.
C17_PausedTimeEarnsNothing ==
    [][(GameTick /\ updates_enabled /\ ~skewed') =>
          cur'.counter - cur.counter
              = cur.auto_increment * (clock - Later(cur.last_update, lastOp.ret))]_vars

\* C19: overlapping saves do not lose the newest state: whenever no
\* save_state is in flight, the stored record is the snapshot of the save
\* that stamped last, whichever of auto_save, action_save, action_reset and
\* on_unmount started them and in whatever order they finished.
C19_NewestSnapshotStored ==
    (/\ \A o \in Owners : tasks[o].phase = "idle"
     /\ lastOp.out # {})
        => load_state(db) = lastOp.out

\* C16: format() of a non-negative integer value selects the suffix by
\* magnitude: no suffix below 1000, else tier k with 1000^k <= v < 1000^(k+1),
\* that is k = the number of groups after the first, capped at tier 11 ("Dc");
\* 1000 gives K, 1,000,000 gives M, 1,234,567,890 gives B.
C16_FormatTier ==
    lastOp.op = "format" =>
        \A v \in lastOp.out :
            LET k == IF Len(v) - 1 > 11 THEN 11 ELSE Len(v) - 1
            IN  /\ lastOp.ret.magnitude = k
                /\ lastOp.ret.suffix = suffixes[k + 1]

====
